---- MODULE Spec2Model ----
(***************************************************************************)
(* The HousingStats component of src/src/App.jsx as a state machine.       *)
(*                                                                         *)
(* State: the component's useState cells.  Every call of an async handler  *)
(* (loadStates, handleStateSelect with its inner loadCounties,             *)
(* handleCountySelect, handleGeoLevelChange, the updateMap effect) is a    *)
(* task: a record holding the values its closure captured and the await    *)
(* it is suspended at.  A user action runs the handler up to its first     *)
(* await together with the render and the updateMap effect that the        *)
(* changed dependencies trigger; a resolve action runs a task from the     *)
(* await it is suspended at to its next await or its end.                  *)
(*                                                                         *)
(* nAct counts the user's actions.  nCycle numbers the selections that     *)
(* start requests (the fetch cycles); the number is copied into the tasks  *)
(* a selection starts and into the values those tasks commit, so that a    *)
(* state shows which fetch cycle wrote which part of the view model.  The  *)
(* program itself keeps no such numbers.                                   *)
(*                                                                         *)
(* The functions of the component that compute without awaiting (the row   *)
(* mapping of fetchVacancyData, the style lookup) are operators.  arg      *)
(* holds the arguments of one call of such a function and ret what the     *)
(* call returned; the specifications after Spec draw arg from bounded sets *)
(* and apply the function, with the component's cells left at rest.  In    *)
(* Spec both stay empty.                                                   *)
(***************************************************************************)
EXTENDS Integers, FiniteSets, Sequences, TLC

VARIABLES selectedState, selectedCounty, geoLevel, states, counties,
          geoJsonData, vacancyData, loading, error, stateStats, countyStats,
          tasks, nAct, nCycle,
          arg, ret

vars == <<selectedState, selectedCounty, geoLevel, states, counties,
          geoJsonData, vacancyData, loading, error, stateStats, countyStats,
          tasks, nAct, nCycle,
          arg, ret>>

(* ------------------------------ bounds --------------------------------- *)

\* number of actions (selections of a state, a county or a level, and
\* dismissals of the error banner) the user makes in a run
MaxActions == 2

\* the state ids the states request returns; the county ids of a state
StateIds == {"06", "48"}
CountyIds == {"001"}

(* ------------------------- values of the cells ------------------------- *)

Levels == {"state", "county", "tract", "block"}

NoError == "null"
ErrLoadStates == "Failed to load states"
ErrLoadCounties == "Failed to load counties"
ErrStateData == "Failed to load state data"
ErrCountyData == "Failed to load county data"
ErrGeoLevel == "Failed to update geography level"
ErrNeedCounty == "Please select a county first"
ErrFetchGeoJSON == "Failed to fetch GeoJSON"
ErrFetchVacancy == "Failed to fetch vacancy data"
ErrInvalidGeoJSON == "Invalid GeoJSON data received"

\* a value of geoJsonData: which request produced it, whether it has a
\* feature list ("some", "empty", or "absent": no features key), its dialect
MkGeo(cyc, src, level, st, co, features, dialect) ==
    [cyc |-> cyc, src |-> src, level |-> level, st |-> st, co |-> co,
     features |-> features, dialect |-> dialect]

\* useState(null)
NoGeo == MkGeo(0, "null", "", "", "", "absent", "")

\* a value of vacancyData: a non-empty list of statistic rows, named by the
\* request that produced it
MkVac(cyc, src, level, st, co) ==
    [cyc |-> cyc, src |-> src, level |-> level, st |-> st, co |-> co]

\* useState([]): the empty list, whoever wrote it
NoVac == MkVac(0, "empty", "", "", "")

\* a value of stateStats / countyStats
MkStats(cyc, st, co) == [cyc |-> cyc, st |-> st, co |-> co]

\* useState(null)
NoStats == MkStats(0, "", "")

MkTask(kind, pc, level, st, co, cyc) ==
    [kind |-> kind, pc |-> pc, level |-> level, st |-> st, co |-> co, cyc |-> cyc]

(* ----------------------- responses of the services --------------------- *)

\* a geometry response: a document with features, with an empty feature
\* list, without a features key, or no usable response (network error,
\* non-success status, body that is not JSON)
GeoResponses == {"ok", "empty", "absent", "fail"}

\* a statistics response: header and rows, fewer than 2 rows, or no usable
\* response
StatsResponses == {"ok", "short", "fail"}

ListResponses == {"ok", "fail"}

(* --------------------------- fetch helpers ----------------------------- *)

\* fetchGeoJSON issues a request for the levels its switch knows
GeoRequested(level) == level \in {"state", "county", "tract"}

\* fetchGeoJSON(level, stateId, countyId) when the service answers resp:
\* whether it throws, and the document it returns otherwise
FetchGeoJSON(level, stateId, countyId, resp) ==
    CASE level = "state" ->
           \* no response.ok test; the filter reads stateData.features
           [throws |-> resp = "fail" \/ (resp = "absent" /\ stateId # ""),
            features |-> IF resp = "ok" THEN "some" ELSE resp,
            dialect |-> "geojson"]
      [] level \in {"county", "tract"} ->
           \* f=json: the body is returned as the service sent it
           [throws |-> resp = "fail",
            features |-> IF resp = "ok" THEN "some" ELSE resp,
            dialect |-> "esri"]
      [] OTHER ->
           [throws |-> TRUE, features |-> "absent", dialect |-> ""]

\* fetchVacancyData(level, stateId, countyId) when the service answers resp:
\* whether it throws, and whether the row list it returns is empty
FetchVacancyData(level, stateId, countyId, resp) ==
    [throws |-> resp = "fail", rows |-> IF resp = "ok" THEN "some" ELSE "none"]

\* the commit without its setVacancyData: the rows stay what they were
VacValueKept(cyc, level, st, co, rows) == vacancyData

\* the value setVacancyData receives from fetchVacancyData
VacValue(cyc, level, st, co, rows) ==
    IF rows = "some" THEN MkVac(cyc, "fetchVacancyData", level, st, co) ELSE NoVac

(* ------------------------- the updateMap effect ------------------------ *)

\* the effect with an updateMap that has no guard on the state
UpdateMapRunsUnguarded(st, co, lvl) ==
    <<st, co, lvl>> # <<selectedState, selectedCounty, geoLevel>>

\* useEffect(updateMap): runs after a render in which selectedState,
\* selectedCounty or geoLevel differ from the render before; updateMap
\* returns at once when no state is selected
UpdateMapRuns(st, co, lvl) ==
    /\ <<st, co, lvl>> # <<selectedState, selectedCounty, geoLevel>>
    /\ st # ""

\* the call of updateMap the effect makes, suspended at its Promise.all
UpdateMapTasks(st, co, lvl, cyc) ==
    IF UpdateMapRuns(st, co, lvl)
    THEN {MkTask("updateMap", "fetch", lvl, st, co, cyc)}
    ELSE {}

(* ------------------------------- Init ---------------------------------- *)

\* arg and ret when no function is under study
NoCall == <<>>

\* after mount: loadStates has run to its fetch; updateMap returned at its
\* guard because no state is selected
Init ==
    /\ selectedState = ""
    /\ selectedCounty = ""
    /\ geoLevel = "state"
    /\ states = {}
    /\ counties = ""
    /\ geoJsonData = NoGeo
    /\ vacancyData = NoVac
    /\ loading = TRUE
    /\ error = NoError
    /\ stateStats = NoStats
    /\ countyStats = NoStats
    /\ tasks = {MkTask("loadStates", "fetch", "", "", "", 0)}
    /\ nAct = 0
    /\ nCycle = 0
    /\ arg = NoCall
    /\ ret = NoCall

(* ------------------------------ loadStates ----------------------------- *)

LoadStatesResolve(t, r) ==
    /\ t \in tasks /\ t.kind = "loadStates"
    /\ IF r = "ok"
       THEN states' = StateIds /\ UNCHANGED error
       ELSE error' = ErrLoadStates /\ UNCHANGED states
    /\ loading' = FALSE
    /\ tasks' = tasks \ {t}
    /\ UNCHANGED <<selectedState, selectedCounty, geoLevel, counties,
                   geoJsonData, vacancyData, stateStats, countyStats, nAct, nCycle>>
    /\ UNCHANGED <<arg, ret>>

(* --------------------------- handleStateSelect ------------------------- *)

\* the options of the state selector other than the one shown
StateOptions == (states \cup {""}) \ {selectedState}

\* the reset with countyStats left as it is
ResetRelatedStateKeepsCountyStats ==
    /\ selectedCounty' = ""
    /\ counties' = ""
    /\ stateStats' = NoStats
    /\ UNCHANGED countyStats
    /\ error' = NoError
    /\ geoJsonData' = NoGeo
    /\ vacancyData' = NoVac

\* the reset with the error left as it is
ResetRelatedStateKeepsError ==
    /\ selectedCounty' = ""
    /\ counties' = ""
    /\ stateStats' = NoStats
    /\ countyStats' = NoStats
    /\ UNCHANGED error
    /\ geoJsonData' = NoGeo
    /\ vacancyData' = NoVac

\* "Reset related state"
ResetRelatedState ==
    /\ selectedCounty' = ""
    /\ counties' = ""
    /\ stateStats' = NoStats
    /\ countyStats' = NoStats
    /\ error' = NoError
    /\ geoJsonData' = NoGeo
    /\ vacancyData' = NoVac

\* the handler without its reset of the level
ResetLevelOmitted == UNCHANGED geoLevel

\* "Reset to state level when state changes"
ResetLevel == geoLevel' = "state"

\* the handler up to its first await (inside loadCounties), the render and
\* the effect
HandleStateSelect(stateId) ==
    /\ ~loading
    /\ nAct < MaxActions
    /\ stateId \in StateOptions
    /\ nAct' = nAct + 1
    /\ ResetRelatedState
    /\ selectedState' = stateId
    /\ IF stateId = ""
       THEN UNCHANGED <<loading, geoLevel, tasks, nCycle>>
       ELSE /\ loading' = TRUE
            /\ ResetLevel
            /\ nCycle' = nCycle + 1
            /\ tasks' = tasks
                 \cup {MkTask("handleStateSelect", "loadCounties", "state", stateId, "", nCycle + 1)}
                 \cup UpdateMapTasks(stateId, "", "state", nCycle + 1)
    /\ UNCHANGED states
    /\ UNCHANGED <<arg, ret>>

\* loadCounties with a catch that rethrows: a failed county list ends
\* handleStateSelect in its catch block
LoadCountiesResolveRethrows(t, r) ==
    /\ t \in tasks /\ t.kind = "handleStateSelect" /\ t.pc = "loadCounties"
    /\ IF r = "ok"
       THEN /\ counties' = t.st
            /\ tasks' = (tasks \ {t}) \cup {[t EXCEPT !.pc = "fetch"]}
            /\ UNCHANGED <<error, selectedState>>
       ELSE /\ counties' = ""
            /\ tasks' = tasks \ {t}
            /\ error' = ErrStateData
            /\ selectedState' = ""
    /\ loading' = FALSE
    /\ UNCHANGED <<selectedCounty, geoLevel, states,
                   geoJsonData, vacancyData, stateStats, countyStats, nAct, nCycle>>
    /\ UNCHANGED <<arg, ret>>

\* loadCounties resolves; the handler goes on to its own two requests
LoadCountiesResolve(t, r) ==
    /\ t \in tasks /\ t.kind = "handleStateSelect" /\ t.pc = "loadCounties"
    /\ IF r = "ok"
       THEN counties' = t.st /\ UNCHANGED error
       ELSE counties' = "" /\ error' = ErrLoadCounties
    /\ loading' = FALSE
    /\ tasks' = (tasks \ {t}) \cup {[t EXCEPT !.pc = "fetch"]}
    /\ UNCHANGED <<selectedState, selectedCounty, geoLevel, states,
                   geoJsonData, vacancyData, stateStats, countyStats, nAct, nCycle>>
    /\ UNCHANGED <<arg, ret>>

\* the catch block without the rollback of the selection
HandleStateSelectCatchKeepsSelection ==
    /\ error' = ErrStateData
    /\ UNCHANGED selectedState

\* the catch block of handleStateSelect
HandleStateSelectCatch ==
    /\ error' = ErrStateData
    /\ selectedState' = ""

\* the statistics and the boundary responses have both arrived; the render
\* after a rollback of selectedState runs the effect, whose updateMap
\* returns at its guard
HandleStateSelectResolve(t, s, g) ==
    /\ t \in tasks /\ t.kind = "handleStateSelect" /\ t.pc = "fetch"
    /\ loading' = FALSE
    /\ IF s = "ok" /\ g \in {"ok", "empty"}
       THEN /\ stateStats' = MkStats(t.cyc, t.st, "")
            /\ geoJsonData' = MkGeo(t.cyc, "handleStateSelect", "state", t.st, "",
                                    IF g = "ok" THEN "some" ELSE "empty", "geojson")
            /\ vacancyData' = MkVac(t.cyc, "handleStateSelect", "state", t.st, "")
            /\ UNCHANGED <<error, selectedState>>
       ELSE /\ HandleStateSelectCatch
            \* setStateStats precedes geoData.features.filter, which throws
            \* when the document has no features
            /\ stateStats' = IF s = "ok" /\ g = "absent"
                             THEN MkStats(t.cyc, t.st, "") ELSE stateStats
            /\ UNCHANGED <<geoJsonData, vacancyData>>
    /\ tasks' = (tasks \ {t})
                  \cup UpdateMapTasks(selectedState', selectedCounty, geoLevel, t.cyc)
    /\ UNCHANGED <<selectedCounty, geoLevel, states, counties, countyStats, nAct, nCycle>>
    /\ UNCHANGED <<arg, ret>>

(* --------------------------- handleCountySelect ------------------------ *)

\* the options of the county selector
CountyList == IF counties = "" THEN {""} ELSE CountyIds \cup {""}

\* the option the selector shows: its value when that is an option
CountyShown == IF selectedCounty \in CountyList THEN selectedCounty ELSE ""

\* the handler up to its Promise.all, the render and the effect; selectedState
\* is the value of the render the handler was created in, the current one
HandleCountySelect(countyId) ==
    /\ ~loading
    /\ nAct < MaxActions
    /\ countyId \in CountyList \ {CountyShown}
    /\ nAct' = nAct + 1
    /\ selectedCounty' = countyId
    /\ countyStats' = NoStats
    /\ geoLevel' = "county"
    /\ IF countyId = "" \/ selectedState = ""
       THEN /\ tasks' = tasks \cup UpdateMapTasks(selectedState, countyId, "county", nCycle + 1)
            /\ IF UpdateMapRuns(selectedState, countyId, "county")
               THEN loading' = TRUE /\ error' = NoError /\ nCycle' = nCycle + 1
               ELSE UNCHANGED <<loading, error, nCycle>>
       ELSE /\ loading' = TRUE
            /\ error' = NoError
            /\ nCycle' = nCycle + 1
            /\ tasks' = tasks
                 \cup {MkTask("handleCountySelect", "fetch", "county", selectedState, countyId, nCycle + 1)}
                 \cup UpdateMapTasks(selectedState, countyId, "county", nCycle + 1)
    /\ UNCHANGED <<selectedState, states, counties, geoJsonData, vacancyData, stateStats>>
    /\ UNCHANGED <<arg, ret>>

\* the statistics and the geometry responses have both arrived
HandleCountySelectResolve(t, s, g) ==
    /\ t \in tasks /\ t.kind = "handleCountySelect"
    /\ tasks' = tasks \ {t}
    /\ loading' = FALSE
    /\ IF s = "ok" /\ g = "ok"
       THEN /\ countyStats' = MkStats(t.cyc, t.st, t.co)
            /\ geoJsonData' = MkGeo(t.cyc, "handleCountySelect", "county", t.st, t.co,
                                    "some", "geojson")
            /\ vacancyData' = MkVac(t.cyc, "handleCountySelect", "county", t.st, t.co)
            /\ UNCHANGED error
       ELSE /\ error' = ErrCountyData
            /\ countyStats' = NoStats
            /\ geoJsonData' = NoGeo
            /\ vacancyData' = NoVac
    /\ UNCHANGED <<selectedState, selectedCounty, geoLevel, states, counties,
                   stateStats, nAct, nCycle>>
    /\ UNCHANGED <<arg, ret>>

(* -------------------------- handleGeoLevelChange ----------------------- *)

\* the test that never refuses a level
LevelRefusedNever(newLevel) == FALSE

\* "Don't allow tract level without county selected"
LevelRefused(newLevel) == newLevel = "tract" /\ selectedCounty = ""

\* the handler up to its Promise.all, the render and the effect.  For a level
\* fetchGeoJSON does not know, its promise is rejected before any response:
\* the handler and the effect both end in their catch (the effect's last)
\* while their statistics requests are still in flight, results unused.
HandleGeoLevelChange(newLevel) ==
    /\ ~loading
    /\ nAct < MaxActions
    /\ newLevel \in Levels \ {geoLevel}
    /\ nAct' = nAct + 1
    /\ IF LevelRefused(newLevel)
       THEN /\ error' = ErrNeedCounty
            /\ UNCHANGED <<geoLevel, loading, tasks, nCycle>>
       ELSE /\ geoLevel' = newLevel
            /\ nCycle' = nCycle + 1
            /\ IF GeoRequested(newLevel)
               THEN /\ loading' = TRUE
                    /\ error' = NoError
                    /\ tasks' = tasks
                         \cup {MkTask("handleGeoLevelChange", "fetch", newLevel,
                                      selectedState, selectedCounty, nCycle + 1)}
                         \cup UpdateMapTasks(selectedState, selectedCounty, newLevel, nCycle + 1)
               ELSE /\ loading' = FALSE
                    /\ error' = IF selectedState # "" THEN ErrFetchGeoJSON ELSE ErrGeoLevel
                    /\ tasks' = tasks
                         \cup {MkTask("handleGeoLevelChange", "unused", newLevel,
                                      selectedState, selectedCounty, nCycle + 1)}
                         \cup (IF selectedState # ""
                               THEN {MkTask("updateMap", "unused", newLevel,
                                            selectedState, selectedCounty, nCycle + 1)}
                               ELSE {})
    /\ UNCHANGED <<selectedState, selectedCounty, states, counties,
                   geoJsonData, vacancyData, stateStats, countyStats>>
    /\ UNCHANGED <<arg, ret>>

\* handleGeoLevelChange without its finally block
HandleGeoLevelChangeResolveNoFinally(t, g, a) ==
    /\ t \in tasks /\ t.kind = "handleGeoLevelChange" /\ t.pc = "fetch"
    /\ tasks' = tasks \ {t}
    /\ UNCHANGED loading
    /\ LET geo == FetchGeoJSON(t.level, t.st, t.co, g)
           vac == FetchVacancyData(t.level, t.st, t.co, a)
       IN  IF geo.throws \/ vac.throws
           THEN /\ error' = ErrGeoLevel
                /\ UNCHANGED <<geoJsonData, vacancyData>>
           ELSE /\ geoJsonData' = MkGeo(t.cyc, "fetchGeoJSON", t.level, t.st, t.co,
                                        geo.features, geo.dialect)
                /\ vacancyData' = VacValue(t.cyc, t.level, t.st, t.co, vac.rows)
                /\ UNCHANGED error
    /\ UNCHANGED <<selectedState, selectedCounty, geoLevel, states, counties,
                   stateStats, countyStats, nAct, nCycle>>
    /\ UNCHANGED <<arg, ret>>

\* both responses have arrived; the handler commits what the fetchers return
HandleGeoLevelChangeResolve(t, g, a) ==
    /\ t \in tasks /\ t.kind = "handleGeoLevelChange" /\ t.pc = "fetch"
    /\ tasks' = tasks \ {t}
    /\ loading' = FALSE
    /\ LET geo == FetchGeoJSON(t.level, t.st, t.co, g)
           vac == FetchVacancyData(t.level, t.st, t.co, a)
       IN  IF geo.throws \/ vac.throws
           THEN /\ error' = ErrGeoLevel
                /\ UNCHANGED <<geoJsonData, vacancyData>>
           ELSE /\ geoJsonData' = MkGeo(t.cyc, "fetchGeoJSON", t.level, t.st, t.co,
                                        geo.features, geo.dialect)
                /\ vacancyData' = VacValue(t.cyc, t.level, t.st, t.co, vac.rows)
                /\ UNCHANGED error
    /\ UNCHANGED <<selectedState, selectedCounty, geoLevel, states, counties,
                   stateStats, countyStats, nAct, nCycle>>
    /\ UNCHANGED <<arg, ret>>

(* ------------------------------- updateMap ----------------------------- *)

\* the messages updateMap's catch can receive: that of the promise rejected
\* first, or its own when the document has no features
UpdateMapErrors(geo, vac) ==
    (IF geo.throws THEN {ErrFetchGeoJSON} ELSE {})
    \cup (IF vac.throws THEN {ErrFetchVacancy} ELSE {})
    \cup (IF ~geo.throws /\ ~vac.throws /\ geo.features = "absent"
          THEN {ErrInvalidGeoJSON} ELSE {})

\* both responses of the effect's call have arrived
UpdateMapResolve(t, g, a) ==
    /\ t \in tasks /\ t.kind = "updateMap" /\ t.pc = "fetch"
    /\ tasks' = tasks \ {t}
    /\ loading' = FALSE
    /\ LET geo == FetchGeoJSON(t.level, t.st, t.co, g)
           vac == FetchVacancyData(t.level, t.st, t.co, a)
       IN  IF UpdateMapErrors(geo, vac) # {}
           THEN /\ error' \in UpdateMapErrors(geo, vac)
                /\ UNCHANGED <<geoJsonData, vacancyData>>
           ELSE /\ geoJsonData' = MkGeo(t.cyc, "fetchGeoJSON", t.level, t.st, t.co,
                                        geo.features, geo.dialect)
                /\ vacancyData' = VacValue(t.cyc, t.level, t.st, t.co, vac.rows)
                /\ UNCHANGED error
    /\ UNCHANGED <<selectedState, selectedCounty, geoLevel, states, counties,
                   stateStats, countyStats, nAct, nCycle>>
    /\ UNCHANGED <<arg, ret>>

\* a response nobody waits for any more arrives
UnusedResolve(t) ==
    /\ t \in tasks /\ t.pc = "unused"
    /\ tasks' = tasks \ {t}
    /\ UNCHANGED <<selectedState, selectedCounty, geoLevel, states, counties,
                   geoJsonData, vacancyData, loading, error, stateStats,
                   countyStats, nAct, nCycle>>
    /\ UNCHANGED <<arg, ret>>

(* ------------------------------ error banner --------------------------- *)

\* the banner's close button
DismissError ==
    /\ error # NoError
    /\ nAct < MaxActions
    /\ nAct' = nAct + 1
    /\ error' = NoError
    /\ UNCHANGED <<selectedState, selectedCounty, geoLevel, states, counties,
                   geoJsonData, vacancyData, loading, stateStats, countyStats,
                   tasks, nCycle>>
    /\ UNCHANGED <<arg, ret>>

(* -------------------------------- Next --------------------------------- *)

Next ==
    \/ \E t \in tasks, r \in ListResponses : LoadStatesResolve(t, r)
    \/ \E stateId \in StateIds \cup {""} : HandleStateSelect(stateId)
    \/ \E t \in tasks, r \in ListResponses : LoadCountiesResolve(t, r)
    \/ \E t \in tasks, s \in StatsResponses, g \in GeoResponses :
          HandleStateSelectResolve(t, s, g)
    \/ \E countyId \in CountyIds \cup {""} : HandleCountySelect(countyId)
    \/ \E t \in tasks, s \in StatsResponses, g \in GeoResponses :
          HandleCountySelectResolve(t, s, g)
    \/ \E newLevel \in Levels : HandleGeoLevelChange(newLevel)
    \/ \E t \in tasks, g \in GeoResponses, a \in StatsResponses :
          HandleGeoLevelChangeResolve(t, g, a)
    \/ \E t \in tasks, g \in GeoResponses, a \in StatsResponses :
          UpdateMapResolve(t, g, a)
    \/ \E t \in tasks : UnusedResolve(t)
    \/ DismissError

Spec == Init /\ [][Next]_vars

(* ------------------------ requests in flight --------------------------- *)

\* the requests a suspended task waits for: the county list; one geometry
\* and one statistics request behind a Promise.all; or a statistics request
\* alone when fetchGeoJSON threw before requesting
Requests(t) ==
    CASE t.kind = "loadStates" -> {"list"}
      [] t.kind = "handleStateSelect" /\ t.pc = "loadCounties" -> {"list"}
      [] t.pc = "unused" -> {"attr"}
      [] OTHER -> {"geo", "attr"}

\* the resolve step of task t is one that ends in the catch block
FailureOf(t) ==
    \/ \E s \in StatsResponses, g \in GeoResponses :
          /\ ~(s = "ok" /\ g \in {"ok", "empty"})
          /\ HandleStateSelectResolve(t, s, g)
    \/ \E s \in StatsResponses, g \in GeoResponses :
          /\ ~(s = "ok" /\ g = "ok")
          /\ HandleCountySelectResolve(t, s, g)
    \/ \E g \in GeoResponses, a \in StatsResponses :
          /\ FetchGeoJSON(t.level, t.st, t.co, g).throws
               \/ FetchVacancyData(t.level, t.st, t.co, a).throws
          /\ HandleGeoLevelChangeResolve(t, g, a)
    \/ \E g \in GeoResponses, a \in StatsResponses :
          /\ UpdateMapErrors(FetchGeoJSON(t.level, t.st, t.co, g),
                             FetchVacancyData(t.level, t.st, t.co, a)) # {}
          /\ UpdateMapResolve(t, g, a)

(* ------------------------------- claims -------------------------------- *)

\* C1: superseded-cycle suppression.  Once every request has resolved, the
\* view model holds no value written by a cycle older than the latest one
\* after that latest cycle was started: a step that leaves no request in
\* flight and writes geoJsonData, vacancyData, stateStats or countyStats
\* writes the value of the latest cycle.
C1_SupersededCycleSuppressed ==
    [][tasks' = {} =>
        /\ (geoJsonData' # geoJsonData /\ geoJsonData' # NoGeo)
              => geoJsonData'.cyc = nCycle'
        /\ (vacancyData' # vacancyData /\ vacancyData' # NoVac)
              => vacancyData'.cyc = nCycle'
        /\ (stateStats' # stateStats /\ stateStats' # NoStats)
              => stateStats'.cyc = nCycle'
        /\ (countyStats' # countyStats /\ countyStats' # NoStats)
              => countyStats'.cyc = nCycle']_vars

\* C2: when a cycle fails after a newer cycle has been started, its failure
\* handling leaves error, selectedState, geoJsonData, vacancyData and
\* countyStats as they are.
C2_StaleFailureChangesNothing ==
    [][\A t \in tasks :
          (t.cyc < nCycle /\ FailureOf(t))
             => UNCHANGED <<error, selectedState, geoJsonData, vacancyData, countyStats>>]_vars

\* C3: a user selection starts one fetch cycle: of the requests in flight,
\* at most one geometry request and at most one statistics request belong
\* to the same selection (the handler and the updateMap effect never both
\* fetch for it).
C3_OneCyclePerSelection ==
    \A c \in 1..nCycle : \A r \in {"geo", "attr"} :
        Cardinality({t \in tasks : t.cyc = c /\ r \in Requests(t)}) <= 1

\* C4: a cycle's results are applied together or not at all: a step that
\* commits a summary statistic (stateStats, countyStats) commits the geometry
\* and the statistics of the same cycle with it.
C4_AtomicCommit ==
    [][/\ (stateStats' # stateStats /\ stateStats' # NoStats)
            => /\ geoJsonData'.cyc = stateStats'.cyc
               /\ geoJsonData'.src = "handleStateSelect"
               /\ vacancyData'.cyc = stateStats'.cyc
               /\ vacancyData'.src = "handleStateSelect"
       /\ (countyStats' # countyStats /\ countyStats' # NoStats)
            => /\ geoJsonData'.cyc = countyStats'.cyc
               /\ geoJsonData'.src = "handleCountySelect"
               /\ vacancyData'.cyc = countyStats'.cyc
               /\ vacancyData'.src = "handleCountySelect"]_vars

\* C5: when a county, tract or geography-level cycle fails, error is set and
\* geoJsonData and vacancyData stay what they were.
C5_FailureKeepsViewModel ==
    [][\A t \in tasks :
          (t.kind \in {"handleCountySelect", "handleGeoLevelChange", "updateMap"}
             /\ FailureOf(t))
             => /\ error' # NoError
                /\ UNCHANGED <<geoJsonData, vacancyData>>]_vars

\* C6: when the statistics request of handleStateSelect answers with a
\* non-success status or with fewer than 2 rows, the handler ends with
\* selectedState reset to '' and a message in error.
C6_StateLoadFailureRollsBack ==
    [][\A t \in {x \in tasks \ tasks' : x.kind = "handleStateSelect"} :
       \A s \in {"short", "fail"} : \A g \in GeoResponses :
          HandleStateSelectResolve(t, s, g)
             => /\ selectedState' = ""
                /\ error' = ErrStateData]_vars

\* the state-level load has failed and the selection is rolled back
C6_Witness ==
    /\ error = ErrStateData
    /\ selectedState = ""
    /\ stateStats = NoStats

\* C7: choosing level 'tract' while no county is selected sets error to the
\* precondition message and leaves geoLevel, the requests in flight, loading,
\* geoJsonData and vacancyData unchanged.
C7_TractNeedsCounty ==
    [][(selectedCounty = "" /\ HandleGeoLevelChange("tract"))
          => /\ error' = ErrNeedCounty
             /\ UNCHANGED <<geoLevel, tasks, loading, geoJsonData, vacancyData>>]_vars

\* 'tract' has been refused: the message is shown, the level is not 'tract'
C7_Witness ==
    /\ error = ErrNeedCounty
    /\ selectedCounty = ""
    /\ geoLevel # "tract"

\* C8: choosing level 'block' while no county is selected is refused like
\* 'tract': the precondition message, geoLevel unchanged, no request issued.
C8_BlockNeedsCounty ==
    [][(selectedCounty = "" /\ HandleGeoLevelChange("block"))
          => /\ error' = ErrNeedCounty
             /\ UNCHANGED <<geoLevel, tasks>>]_vars

C10_CountyNeedsState ==
    [][\A countyId \in CountyIds \cup {""} :
          HandleCountySelect(countyId)
             => IF selectedState = ""
                THEN UNCHANGED <<selectedCounty, geoLevel>>
                ELSE /\ geoLevel' = "county"
                     /\ \E t \in tasks' \ tasks :
                           t.cyc = nCycle' /\ t.level = "county"]_vars

\* C11: a fetch cycle for level county, tract or block is never started
\* with an empty state id: no task of such a level that has a geometry or a
\* statistics request in flight captured selectedState ''.
C11_NoSubStateCycleWithoutState ==
    \A t \in tasks :
        (t.level \in {"county", "tract", "block"}
           /\ Requests(t) \cap {"geo", "attr"} # {})
        => t.st # ""

\* C12: the county selector can be used only after a state is chosen, and
\* the level 'tract' can be chosen only after a county is chosen: no step is
\* a selection of a county while selectedState is '', and no step is a
\* selection of the level tract while selectedCounty is ''.
C12_SelectorsDisabled ==
    [][/\ (\E countyId \in CountyIds \cup {""} : HandleCountySelect(countyId))
             => selectedState # ""
       /\ HandleGeoLevelChange("tract") => selectedCounty # ""]_vars

(* --------------------------- statistic rows ---------------------------- *)

\* the tract codes of a county
TractIds == {"400100"}

\* the geography columns that close the rows of the table the statistics
\* service returns for "for=level:*" with the "in" parameters of
\* fetchVacancyData: one row per area of the level, the codes of the
\* enclosing areas first and the area's own code last
GeoColumns(level, stateId, countyId) ==
    CASE level = "state" -> {<<s>> : s \in StateIds}
      [] level = "county" -> {<<stateId, c>> : c \in CountyIds}
      [] level = "tract" -> {<<stateId, countyId, tr>> : tr \in TractIds}
      [] OTHER -> {}

\* geoid: row[row.length - 1] of the rows fetchVacancyData maps
RowGeoids(level, stateId, countyId) ==
    {cols[Len(cols)] : cols \in GeoColumns(level, stateId, countyId)}

\* the geoid fields of the rows of a value of vacancyData
VacGeoids(v) ==
    CASE v.src = "handleStateSelect" -> {v.st}
      [] v.src = "handleCountySelect" -> {v.st \o v.co}
      [] v.src = "fetchVacancyData" -> RowGeoids(v.level, v.st, v.co)
      [] OTHER -> {}

\* C13: every statistic row committed to vacancyData carries in geoid the
\* canonical identifier of its level: the codes of the geography columns of
\* its area concatenated (state: 2 digits; county: state+county, 5 digits;
\* tract: state+county+tract, 11 digits).
C13_GeoidCanonical ==
    LET Canonical(cols) ==
            CASE Len(cols) = 1 -> cols[1]
              [] Len(cols) = 2 -> cols[1] \o cols[2]
              [] OTHER -> cols[1] \o cols[2] \o cols[3]
        v == vacancyData
    IN  v.st # "" =>
           VacGeoids(v) \subseteq
              {Canonical(cols) : cols \in GeoColumns(v.level, v.st, v.co)}

\* C14: a geometry response with an empty or an absent feature list is
\* never committed: whatever updateMap, handleGeoLevelChange,
\* handleStateSelect or handleCountySelect wrote to geoJsonData has features.
C14_NoEmptyGeometryCommitted ==
    geoJsonData # NoGeo => geoJsonData.features = "some"

\* C15: each of the four recognized levels, 'block' included, gets a
\* geometry request: a selection of a level that the handler does not
\* refuse leaves a task started by it with a geometry request in flight.
C15_RecognizedLevelRequestsGeometry ==
    [][\A newLevel \in Levels :
          (HandleGeoLevelChange(newLevel) /\ ~LevelRefused(newLevel))
          => \E t \in tasks' \ tasks : "geo" \in Requests(t)]_vars

\* C16: a statistics response that is unusable or has fewer than 2 rows
\* makes its cycle fail: the resolve step of updateMap or of
\* handleGeoLevelChange that receives one sets an error and commits nothing.
C16_ShortStatisticsFails ==
    [][\A t \in tasks \ tasks', g \in GeoResponses, a \in {"short", "fail"} :
          (UpdateMapResolve(t, g, a) \/ HandleGeoLevelChangeResolve(t, g, a))
          => /\ error' # NoError
             /\ UNCHANGED <<geoJsonData, vacancyData>>]_vars

\* C17: every feature collection committed to geoJsonData is in the GeoJSON
\* shape: a response in the geometry service's own dialect is never
\* committed untranslated.
C17_CommittedGeometryIsGeoJSON ==
    geoJsonData # NoGeo => geoJsonData.dialect = "geojson"

(* ------------------- fetchVacancyData: one table row ------------------- *)

\* const variables = { totalHousing: ..., vacant: ... }
TotalVar == "B25002_001E"
VacantVar == "B25002_003E"

\* longest cell of a row, in characters
MaxCellLen == 2

\* the characters of a cell: digits, a sign, a letter
CellChars == {"0", "1", "6", "-", "x"}

\* a cell, like every string that is parsed or formatted, is the sequence of
\* its characters.  parseInt converts its argument
\* to a string first: JSON null and a missing element arrive as these
Null == <<"n", "u", "l", "l">>
Undefined == <<"u", "n", "d", "e", "f", "i", "n", "e", "d">>

Cells == UNION {[1..n -> CellChars] : n \in 0..MaxCellLen} \cup {Null}

\* the header rows: the columns in the order of the request, the two
\* variables exchanged, the vacant column missing
Headers ==
    {<<"NAME", TotalVar, VacantVar, "state">>,
     <<"NAME", VacantVar, TotalVar, "state">>,
     <<"NAME", TotalVar, "state">>}

\* headers.indexOf(name): the first position, from 0, or -1
IndexOf(headers, name) ==
    IF \E i \in DOMAIN headers : headers[i] = name
    THEN (CHOOSE i \in DOMAIN headers :
             /\ headers[i] = name
             /\ \A j \in DOMAIN headers : headers[j] = name => i <= j) - 1
    ELSE -1

\* row[k]
At(row, k) == IF k + 1 \in DOMAIN row THEN row[k + 1] ELSE Undefined

DigitChars == <<"0", "1", "2", "3", "4", "5", "6", "7", "8", "9">>
HexLower == DigitChars \o <<"a", "b", "c", "d", "e", "f">>
HexUpper == DigitChars \o <<"A", "B", "C", "D", "E", "F">>

\* the value of character c as a digit of the radix, -1 when it is none
DigitValue(c, radix) ==
    IF \E i \in 1..radix : HexLower[i] = c \/ HexUpper[i] = c
    THEN (CHOOSE i \in 1..radix : HexLower[i] = c \/ HexUpper[i] = c) - 1
    ELSE -1

RECURSIVE TrimStart(_)
TrimStart(s) == IF s # <<>> /\ s[1] = " " THEN TrimStart(Tail(s)) ELSE s

\* the longest prefix of s made of digits of the radix
RECURSIVE LeadingDigits(_, _)
LeadingDigits(s, radix) ==
    IF s # <<>> /\ DigitValue(s[1], radix) >= 0
    THEN <<s[1]>> \o LeadingDigits(Tail(s), radix)
    ELSE <<>>

RECURSIVE DigitsValue(_, _)
DigitsValue(ds, radix) ==
    IF ds = <<>> THEN 0
    ELSE DigitsValue(SubSeq(ds, 1, Len(ds) - 1), radix) * radix
           + DigitValue(ds[Len(ds)], radix)

\* parseInt(cell) without a radix: leading white space skipped, a sign, a
\* 0x prefix selecting radix 16, then the longest prefix of digits; NaN when
\* that prefix is empty
ParseInt(cell) ==
    LET s == TrimStart(cell)
        signed == s # <<>> /\ s[1] \in {"+", "-"}
        negative == s # <<>> /\ s[1] = "-"
        t == IF signed THEN Tail(s) ELSE s
        hex == Len(t) >= 2 /\ t[1] = "0" /\ t[2] \in {"x", "X"}
        radix == IF hex THEN 16 ELSE 10
        body == IF hex THEN Tail(Tail(t)) ELSE t
        ds == LeadingDigits(body, radix)
    IN  IF ds = <<>>
        THEN [nan |-> TRUE, val |-> 0]
        ELSE [nan |-> FALSE,
              val |-> IF negative THEN 0 - DigitsValue(ds, radix)
                      ELSE DigitsValue(ds, radix)]

\* the counts are never read
ParseIntSkipped(cell) == 0

\* parseInt(cell) || 0
ParseIntOrZero(cell) == IF ParseInt(cell).nan THEN 0 ELSE ParseInt(cell).val

RECURSIVE NatToString(_)
NatToString(n) ==
    IF n < 10 THEN <<DigitChars[n + 1]>>
    ELSE NatToString(n \div 10) \o <<DigitChars[(n % 10) + 1]>>

\* toFixed(1) rounds to the lower tenth: no rounding at all
TenthsTruncated(vacant, totalHousing) ==
    LET a == IF vacant < 0 THEN 0 - vacant ELSE vacant
    IN  {(1000 * a) \div totalHousing}

\* ((vacant / totalHousing) * 100).toFixed(1) for totalHousing > 0: the
\* number of tenths n for which n / 10 is nearest to the magnitude of the
\* product.  The product is a binary floating-point number: where the exact
\* quotient lies half-way between two tenths it is that half-way value only
\* if vacant / totalHousing is a multiple of 1/16 (toFixed then takes the
\* larger n); otherwise it lies on either side of it.
Tenths(vacant, totalHousing) ==
    LET a == IF vacant < 0 THEN 0 - vacant ELSE vacant
        lo == (1000 * a) \div totalHousing
        r == (1000 * a) % totalHousing
    IN  IF 2 * r < totalHousing THEN {lo}
        ELSE IF 2 * r > totalHousing THEN {lo + 1}
        ELSE IF (16 * a) % totalHousing = 0 THEN {lo + 1}
        ELSE {lo, lo + 1}

\* the string toFixed(1) returns for n tenths, as its characters
ToFixed1(negative, n) ==
    (IF negative THEN <<"-">> ELSE <<>>) \o NatToString(n \div 10)
       \o <<".", DigitChars[(n % 10) + 1]>>

\* totalHousing > 0 ? ((vacant / totalHousing) * 100).toFixed(1) : '0.0'
VacancyRates(totalHousing, vacant) ==
    IF totalHousing > 0
    THEN {ToFixed1(vacant < 0, n) : n \in Tenths(vacant, totalHousing)}
    ELSE {<<"0", ".", "0">>}

\* the statistic rows.map makes of one row
RowStats(headers, row) ==
    LET totalHousing == ParseIntOrZero(At(row, IndexOf(headers, TotalVar)))
        vacant == ParseIntOrZero(At(row, IndexOf(headers, VacantVar)))
    IN  {[name |-> row[1], geoid |-> row[Len(row)],
          totalHousing |-> totalHousing, vacant |-> vacant,
          vacancyRate |-> rate] : rate \in VacancyRates(totalHousing, vacant)}

\* the component's cells with nothing selected and nothing in flight
appVars == <<selectedState, selectedCounty, geoLevel, states, counties,
             geoJsonData, vacancyData, loading, error, stateStats,
             countyStats, tasks, nAct, nCycle>>

AppAtRest ==
    /\ selectedState = ""
    /\ selectedCounty = ""
    /\ geoLevel = "state"
    /\ states = StateIds
    /\ counties = ""
    /\ geoJsonData = NoGeo
    /\ vacancyData = NoVac
    /\ loading = FALSE
    /\ error = NoError
    /\ stateStats = NoStats
    /\ countyStats = NoStats
    /\ tasks = {}
    /\ nAct = 0
    /\ nCycle = 0

\* the rows of the tables: a name, one cell per variable column of the
\* header, the state code
RowsOf(headers) ==
    {<<"California">> \o cells \o <<"06">> :
        cells \in [1..(Len(headers) - 2) -> Cells]}

RowInit ==
    /\ AppAtRest
    /\ \E h \in Headers : \E r \in RowsOf(h) :
          arg = <<[headers |-> h, row |-> r]>>
    /\ ret = <<>>

\* rows.map applies its function to the row
MapRow ==
    /\ arg # <<>> /\ ret = <<>>
    /\ ret' \in {<<stat>> : stat \in RowStats(arg[1].headers, arg[1].row)}
    /\ UNCHANGED <<arg, appVars>>

RowNext == MapRow

RowSpec == RowInit /\ [][RowNext]_vars

StatsHeader(level) ==
    <<"NAME", TotalVar, VacantVar>> \o
       (CASE level = "state" -> <<"state">>
          [] level = "county" -> <<"state", "county">>
          [] OTHER -> <<"state", "county", "tract">>)

\* the NAME cell of an area, as its parts between commas
AreaName(cols) ==
    CASE cols = <<"06">> -> <<"California">>
      [] cols = <<"48">> -> <<"Texas">>
      [] Len(cols) = 2 -> <<"County " \o cols[2], " State " \o cols[1]>>
      [] OTHER -> <<"Census Tract " \o cols[Len(cols)], " County " \o cols[2],
                    " State " \o cols[1]>>

\* the cells of the two variables of an area: 1000 units of which 100 are
\* vacant in state 06, 16 of which 1 elsewhere
AreaCounts(cols) ==
    IF cols = <<"06">>
    THEN <<(<<"1", "0", "0", "0">>), (<<"1", "0", "0">>)>>
    ELSE <<(<<"1", "6">>), (<<"1">>)>>

\* the row of the area with the geography columns cols
TableRow(cols) == <<AreaName(cols)>> \o AreaCounts(cols) \o cols

\* the statistic rows of a value of vacancyData: the single row of the
\* selected area with the geoid built from the selection (handleStateSelect,
\* handleCountySelect, the latter with the name cut at its first comma), or
\* every row of the table as fetchVacancyData maps it
VacRows(v) ==
    CASE v.src = "handleStateSelect" ->
           {[stat EXCEPT !.geoid = v.st] :
               stat \in RowStats(StatsHeader("state"), TableRow(<<v.st>>))}
      [] v.src = "handleCountySelect" ->
           {[stat EXCEPT !.geoid = v.st \o v.co, !.name = <<stat.name[1]>>] :
               stat \in RowStats(StatsHeader("county"), TableRow(<<v.st, v.co>>))}
      [] v.src = "fetchVacancyData" ->
           UNION {RowStats(StatsHeader(v.level), TableRow(cols)) :
                     cols \in GeoColumns(v.level, v.st, v.co)}
      [] OTHER -> {}

\* C19: selecting state '06' when the statistics service answers with the
\* header [NAME, B25002_001E, B25002_003E, state] and the row
\* [California, 1000, 100, 06] leaves, once every request has resolved,
\* vacancyData containing the statistic {name California, totalHousing 1000,
\* vacant 100, vacancyRate '10.0', geoid '06'}.
C19_CaliforniaStatistic ==
    (tasks = {} /\ nAct = 1 /\ selectedState = "06" /\ vacancyData # NoVac)
    => [name |-> <<"California">>, geoid |-> "06", totalHousing |-> 1000,
        vacant |-> 100, vacancyRate |-> <<"1", "0", ".", "0">>]
          \in VacRows(vacancyData)

\* state 06 has been selected, every request has resolved and the handler
\* committed its row
C19_Witness ==
    /\ tasks = {} /\ nAct = 1 /\ selectedState = "06"
    /\ vacancyData.src = "handleStateSelect"
    /\ stateStats = MkStats(1, "06", "")

(* ------------------------ style: the join ------------------------------ *)

\* longest feature list and longest statistic list of a rendered layer
MaxFeatures == 2
MaxStats == 2

\* a property the feature does not have
NoId == "undefined"

\* the features of a layer, by the two properties style reads
Features == [GEOID : {NoId, "06"}, id : {NoId, "06", "48"}]

\* statistic rows as fetchVacancyData makes them: no units, 1 of 16 vacant
\* (6.3), 6 of 16 vacant (37.5), for two areas
SampleStats ==
    UNION {RowStats(StatsHeader("state"), <<(<<"Area">>)>> \o counts \o <<g>>) :
              <<counts, g>> \in
                 {<<(<<"0">>), (<<"0">>)>>,
                  <<(<<"1", "6">>), (<<"1">>)>>,
                  <<(<<"1", "6">>), (<<"6">>)>>} \X {"06", "48"}}

RECURSIVE Pow10(_)
Pow10(k) == IF k = 0 THEN 1 ELSE 10 * Pow10(k - 1)

\* a number: neg, mant / 10^scale, or NaN
Num(nan, neg, mant, scale) ==
    [nan |-> nan, neg |-> neg, mant |-> mant, scale |-> scale]

\* the literal 0
Zero == Num(FALSE, FALSE, 0, 0)

\* parseFloat(s): leading white space skipped, a sign, digits, a point and
\* digits; the longest such prefix, NaN when it has no digit.  (Exponents
\* and Infinity do not occur in what toFixed(1) writes for these counts.)
ParseFloat(s) ==
    LET t == TrimStart(s)
        signed == t # <<>> /\ t[1] \in {"+", "-"}
        body == IF signed THEN Tail(t) ELSE t
        int == LeadingDigits(body, 10)
        rest == SubSeq(body, Len(int) + 1, Len(body))
        frac == IF rest # <<>> /\ rest[1] = "."
                THEN LeadingDigits(Tail(rest), 10) ELSE <<>>
    IN  IF int = <<>> /\ frac = <<>>
        THEN Num(TRUE, FALSE, 0, 0)
        ELSE Num(FALSE, signed /\ t[1] = "-", DigitsValue(int \o frac, 10),
                 Len(frac))

\* rate > c
AtLeastExclusive(rate, c) ==
    ~rate.nan /\ ~rate.neg /\ rate.mant > c * Pow10(rate.scale)

\* rate >= c for a positive integer c
AtLeast(rate, c) ==
    ~rate.nan /\ ~rate.neg /\ rate.mant >= c * Pow10(rate.scale)

GetColor(rate) ==
    CASE AtLeast(rate, 25) -> "#a50f15"
      [] ~AtLeast(rate, 25) /\ AtLeast(rate, 20) -> "#de2d26"
      [] ~AtLeast(rate, 20) /\ AtLeast(rate, 15) -> "#fb6a4a"
      [] ~AtLeast(rate, 15) /\ AtLeast(rate, 10) -> "#fcae91"
      [] ~AtLeast(rate, 10) /\ AtLeast(rate, 7) -> "#fee5d9"
      [] ~AtLeast(rate, 7) /\ AtLeast(rate, 5) -> "#edf8e9"
      [] ~AtLeast(rate, 5) /\ AtLeast(rate, 3) -> "#bae4b3"
      [] ~AtLeast(rate, 3) /\ AtLeast(rate, 1) -> "#74c476"
      [] OTHER -> "#238b45"

\* feature.properties.GEOID || feature.properties.id
FeatureKey(feature) ==
    IF feature.GEOID \notin {NoId, ""} THEN feature.GEOID ELSE feature.id

\* vacancyData.find(d => d.geoid === key): the position of the first such
\* row, 0 when find returns undefined
Find(stats, key) ==
    IF \E i \in DOMAIN stats : stats[i].geoid = key
    THEN CHOOSE i \in DOMAIN stats :
            /\ stats[i].geoid = key
            /\ \A j \in DOMAIN stats : stats[j].geoid = key => i <= j
    ELSE 0

\* style(feature) with vacancyData = stats; the members other than
\* fillColor are the same for every feature
Style(feature, stats) ==
    LET i == Find(stats, FeatureKey(feature))
        rate == IF i # 0 THEN ParseFloat(stats[i].vacancyRate) ELSE Zero
    IN  [fillColor |-> GetColor(rate)]

\* a layer that styles the i-th feature by the i-th statistic
RenderByPosition(features, stats) ==
    [i \in 1..Len(features) |->
        [fillColor |-> IF i \in DOMAIN stats
                       THEN GetColor(ParseFloat(stats[i].vacancyRate))
                       ELSE GetColor(Zero)]]

\* a layer that leaves out the features without a statistic
RenderMatchedOnly(features, stats) ==
    LET Matched(feature) == Find(stats, FeatureKey(feature)) # 0
        kept == SelectSeq(features, Matched)
    IN  [i \in 1..Len(kept) |-> Style(kept[i], stats)]

\* <GeoJSON data style>: one path per feature of the data, in the style
\* the callback returns for it
Render(features, stats) ==
    [i \in 1..Len(features) |-> Style(features[i], stats)]

SeqsUpTo(S, n) == UNION {[1..k -> S] : k \in 0..n}

JoinInit ==
    /\ AppAtRest
    /\ \E features \in SeqsUpTo(Features, MaxFeatures) :
          \E stats \in SeqsUpTo(SampleStats, MaxStats) :
             arg = <<[features |-> features, stats |-> stats]>>
    /\ ret = <<>>

\* the layer is drawn
RenderLayer ==
    /\ arg # <<>> /\ ret = <<>>
    /\ ret' = <<Render(arg[1].features, arg[1].stats)>>
    /\ UNCHANGED <<arg, appVars>>

JoinNext == RenderLayer

JoinSpec == JoinInit /\ [][JoinNext]_vars

\* C20: the join keeps every geometry feature: the layer has one path per
\* feature; a feature whose identifier (GEOID, else id) equals the geoid of
\* no statistic is drawn with rate 0, the colour of the lowest bucket; a
\* feature whose identifier equals the geoid of a statistic is drawn in the
\* colour of that statistic's rate.
C20_JoinKeepsEveryFeature ==
    ret # <<>> =>
       LET features == arg[1].features
           stats == arg[1].stats
           layer == ret[1]
           Key(f) == IF f.GEOID = NoId THEN f.id ELSE f.GEOID
           Matches(f) == {j \in DOMAIN stats : stats[j].geoid = Key(f)}
       IN  /\ Len(layer) = Len(features)
           /\ \A i \in DOMAIN features :
                 IF Matches(features[i]) = {}
                 THEN layer[i].fillColor = "#238b45"
                 ELSE \E j \in Matches(features[i]) :
                         layer[i].fillColor
                            = GetColor(ParseFloat(stats[j].vacancyRate))

\* a layer of two features has been drawn: the first has the statistic of
\* rate 37.5 and the darkest colour, the second has no statistic and the
\* colour of the lowest bucket
C20_Witness ==
    /\ ret # <<>>
    /\ arg[1].features = <<[GEOID |-> "06", id |-> NoId], [GEOID |-> NoId, id |-> "48"]>>
    /\ Len(arg[1].stats) = 1
    /\ arg[1].stats[1].geoid = "06"
    /\ arg[1].stats[1].vacancyRate = <<"3", "7", ".", "5">>
    /\ ret[1] = <<[fillColor |-> "#a50f15"], [fillColor |-> "#238b45"]>>

\* C21: the join is order-independent: for every feature list, every
\* statistic list and every permutation of either, each feature is drawn in
\* the same colour.
C21_JoinOrderIndependent ==
    ret # <<>> =>
       LET features == arg[1].features
           stats == arg[1].stats
           layer == ret[1]
           Perms(n) == {p \in [1..n -> 1..n] : \A i, j \in 1..n : p[i] = p[j] => i = j}
           Permuted(s, p) == [i \in 1..Len(s) |-> s[p[i]]]
       IN  /\ \A p \in Perms(Len(stats)) :
                 Render(features, Permuted(stats, p)) = layer
           /\ \A q \in Perms(Len(features)) :
                 Render(Permuted(features, q), stats) = Permuted(layer, q)

\* C21, for statistic lists in which no two rows have the same geoid: each
\* feature is drawn in the same colour under every permutation of the
\* features and of the statistics.
C21_JoinOrderIndependentDistinctGeoids ==
    (/\ ret # <<>>
     /\ \A i, j \in DOMAIN arg[1].stats :
           arg[1].stats[i].geoid = arg[1].stats[j].geoid => i = j)
    => LET features == arg[1].features
           stats == arg[1].stats
           layer == ret[1]
           Perms(n) == {p \in [1..n -> 1..n] : \A i, j \in 1..n : p[i] = p[j] => i = j}
           Permuted(s, p) == [i \in 1..Len(s) |-> s[p[i]]]
       IN  /\ \A p \in Perms(Len(stats)) :
                 Render(features, Permuted(stats, p)) = layer
           /\ \A q \in Perms(Len(features)) :
                 Render(Permuted(features, q), stats) = Permuted(layer, q)

\* a layer of two features has been drawn with two statistics of different
\* areas and different rates
C21_Witness ==
    /\ ret # <<>>
    /\ arg[1].features = <<[GEOID |-> "06", id |-> NoId], [GEOID |-> NoId, id |-> "48"]>>
    /\ Len(arg[1].stats) = 2
    /\ arg[1].stats[1].geoid = "48"
    /\ arg[1].stats[2].geoid = "06"
    /\ ret[1] = <<[fillColor |-> "#a50f15"], [fillColor |-> "#edf8e9"]>>

(* ----------------------- the Area Statistics table --------------------- *)

\* longest vacancyData the table is made of
MaxRows == 11

\* .slice(0, 10)
TopN == 10

\* county codes, one per row of vacancyData
AreaCodes ==
    <<"001", "003", "005", "007", "009", "011", "013", "015", "017", "019",
      "021", "023", "025", "027">>

\* the counts of a row: 1 of 16 units vacant (6.3), 6 of 16 vacant (37.5)
TableCounts == {<<(<<"1", "6">>), (<<"1">>)>>, <<(<<"1", "6">>), (<<"6">>)>>}

\* vacancyData as fetchVacancyData makes it of the rows with these counts
StatsOfCounts(counts) ==
    [i \in 1..Len(counts) |->
        CHOOSE stat \in RowStats(StatsHeader("county"),
                                 <<(<<"Area">>)>> \o counts[i] \o <<"06", AreaCodes[i]>>) :
           TRUE]

\* the number x as an integer number of 10^-k
Scaled(x, k) ==
    (IF x.neg THEN 0 - x.mant ELSE x.mant) * Pow10(k - x.scale)

\* the sign of x - y; 0 when the difference is NaN, which sort reads as 0
SignOfDifference(x, y) ==
    LET k == IF x.scale > y.scale THEN x.scale ELSE y.scale
    IN  IF x.nan \/ y.nan THEN 0
        ELSE IF Scaled(x, k) > Scaled(y, k) THEN 1
        ELSE IF Scaled(x, k) < Scaled(y, k) THEN -1
        ELSE 0

\* (a, b) => parseFloat(b.vacancyRate) - parseFloat(a.vacancyRate)
Comparator(a, b) ==
    SignOfDifference(ParseFloat(b.vacancyRate), ParseFloat(a.vacancyRate))

\* a row put before the rows it compares equal to
InsertBeforeTies(sorted, row) ==
    LET after == {i \in DOMAIN sorted : Comparator(sorted[i], row) >= 0}
        at == IF after = {} THEN Len(sorted) + 1
              ELSE CHOOSE i \in after : \A j \in after : i <= j
    IN  SubSeq(sorted, 1, at - 1) \o <<row>> \o SubSeq(sorted, at, Len(sorted))

\* Array.prototype.sort is stable: a row goes before the first row the
\* comparator puts after it, behind the rows it compares equal to
Insert(sorted, row) ==
    LET after == {i \in DOMAIN sorted : Comparator(sorted[i], row) > 0}
        at == IF after = {} THEN Len(sorted) + 1
              ELSE CHOOSE i \in after : \A j \in after : i <= j
    IN  SubSeq(sorted, 1, at - 1) \o <<row>> \o SubSeq(sorted, at, Len(sorted))

\* [...list].sort(comparator)
RECURSIVE Sort(_)
Sort(list) ==
    IF list = <<>> THEN <<>>
    ELSE Insert(Sort(SubSeq(list, 1, Len(list) - 1)), list[Len(list)])

\* .slice(0, n)
Slice(list, n) == SubSeq(list, 1, IF Len(list) < n THEN Len(list) ELSE n)

\* the rows of the table
TableRows(stats) == Slice(Sort(stats), TopN)

TableInit ==
    /\ AppAtRest
    /\ \E n \in 0..MaxRows : \E counts \in [1..n -> TableCounts] :
          arg = <<[stats |-> StatsOfCounts(counts)]>>
    /\ ret = <<>>

\* the table is rendered
RenderTable ==
    /\ arg # <<>> /\ ret = <<>>
    /\ ret' = <<TableRows(arg[1].stats)>>
    /\ UNCHANGED <<arg, appVars>>

TableNext == RenderTable

TableSpec == TableInit /\ [][TableNext]_vars

\* C22: the table lists at most 10 rows of vacancyData, the rows of the
\* highest rates, in non-increasing order of vacancy rate; rows of equal
\* rate appear in the order they have in vacancyData.
C22_TopNStable ==
    ret # <<>> =>
       LET stats == arg[1].stats
           rows == ret[1]
           Rate(r) == ParseFloat(r.vacancyRate)
           Pos(r) == CHOOSE j \in DOMAIN stats : stats[j] = r
           listed == {Pos(rows[i]) : i \in DOMAIN rows}
       IN  /\ Len(rows) = IF Len(stats) < 10 THEN Len(stats) ELSE 10
           /\ \A i \in DOMAIN rows : \E j \in DOMAIN stats : stats[j] = rows[i]
           /\ Cardinality(listed) = Len(rows)
           /\ \A i, k \in DOMAIN rows :
                 i < k =>
                    /\ SignOfDifference(Rate(rows[i]), Rate(rows[k])) >= 0
                    /\ SignOfDifference(Rate(rows[i]), Rate(rows[k])) = 0
                          => Pos(rows[i]) < Pos(rows[k])
           /\ \A j \in DOMAIN stats \ listed : \A i \in DOMAIN rows :
                 SignOfDifference(Rate(rows[i]), Rate(stats[j])) >= 0

\* a vacancyData of 11 rows, the first and the last of rate 37.5 and the
\* others of rate 6.3, has been ranked: the table has 10 rows, the first row
\* first, the last row second, and leaves out the tenth row
C22_Witness ==
    /\ ret # <<>>
    /\ Len(arg[1].stats) = 11
    /\ \A i \in 1..11 :
          arg[1].stats[i].vacancyRate
             = IF i \in {1, 11} THEN <<"3", "7", ".", "5">> ELSE <<"6", ".", "3">>
    /\ Len(ret[1]) = 10
    /\ ret[1][1].geoid = "001"
    /\ ret[1][2].geoid = "021"
    /\ ret[1][10].geoid = "017"

(* ------------------------- id.padStart(2, '0') ------------------------- *)

\* longest raw id
MaxIdLen == 3

\* the characters of a raw id
IdChars == {"0", "6", "x"}

\* the first n characters of fill repeated
RECURSIVE Filler(_, _)
Filler(fill, n) ==
    IF n = 0 \/ fill = <<>> THEN <<>>
    ELSE IF n <= Len(fill) THEN SubSeq(fill, 1, n)
    ELSE fill \o Filler(fill, n - Len(fill))

\* the padding put in front of every string, whatever its length
PadStartAlways(s, width, fill) == Filler(fill, width) \o s

\* s.padStart(width, fill)
PadStart(s, width, fill) ==
    IF Len(s) >= width THEN s
    ELSE Filler(fill, width - Len(s)) \o s

\* the state id sent to the services: id.padStart(2, '0')
FormattedStateId(id) == PadStart(id, 2, <<"0">>)

PadInit ==
    /\ AppAtRest
    /\ \E n \in 0..MaxIdLen : \E id \in [1..n -> IdChars] : arg = <<id>>
    /\ ret = <<>>

\* the id is formatted: by loadStates when the list arrives, and again, in
\* its formatted form, by loadCounties and handleCountySelect
FormatId ==
    /\ arg # <<>> /\ Len(ret) < 2
    /\ ret' = Append(ret, FormattedStateId(IF ret = <<>> THEN arg[1] ELSE ret[Len(ret)]))
    /\ UNCHANGED <<arg, appVars>>

PadNext == FormatId

PadSpec == PadInit /\ [][PadNext]_vars

\* C23: state-id normalization maps every raw id of length 1 or 2 to a
\* string of 2 characters, the raw id behind as many '0' as it lacks, and is
\* idempotent: normalizing a normalized id returns it unchanged.
C23_PadStartIdempotent ==
    LET raw == arg[1]
    IN  /\ (Len(ret) >= 1 /\ Len(raw) \in {1, 2}) =>
              /\ Len(ret[1]) = 2
              /\ SubSeq(ret[1], 3 - Len(raw), 2) = raw
              /\ \A i \in 1..(2 - Len(raw)) : ret[1][i] = "0"
        /\ Len(ret) = 2 => ret[2] = ret[1]

\* the raw id '6' has been normalized to '06' and '06' normalized again
C23_Witness ==
    /\ arg = <<(<<"6">>)>>
    /\ ret = <<(<<"0", "6">>), (<<"0", "6">>)>>

(* ------------------------------ getColor ------------------------------- *)

\* highest vacancy rate coloured, in tenths of a percent
MaxTenths == 260

\* style's rate: of a statistic whose vacancyRate toFixed(1) wrote for that
\* many tenths, or of no statistic
ColorInit ==
    /\ AppAtRest
    /\ \/ \E n \in 0..MaxTenths, negative \in BOOLEAN :
             arg = <<[matched |-> TRUE, tenths |-> n, negative |-> negative,
                      vacancyRate |-> ToFixed1(negative, n)]>>
       \/ arg = <<[matched |-> FALSE, tenths |-> 0, negative |-> FALSE,
                   vacancyRate |-> <<>>]>>
    /\ ret = <<>>

\* rate = data ? parseFloat(data.vacancyRate) : 0; getColor(rate)
ColorFeature ==
    /\ arg # <<>> /\ ret = <<>>
    /\ ret' = <<GetColor(IF arg[1].matched THEN ParseFloat(arg[1].vacancyRate)
                         ELSE Zero)>>
    /\ UNCHANGED <<arg, appVars>>

ColorNext == ColorFeature

ColorSpec == ColorInit /\ [][ColorNext]_vars

C25_CycleStartSetsLoading ==
    [][ (nAct' # nAct /\ \E t \in tasks' \ tasks : t.pc # "unused")
        => (loading' /\ error' = NoError) ]_vars

\* a second cycle waits for its requests with loading true and no error,
\* after a first cycle (an unknown level) had ended with an error
C25_Witness ==
    /\ loading /\ error = NoError
    /\ \E t \in tasks : t.cyc = 1 /\ t.pc = "unused"
    /\ \E t \in tasks : t.cyc = 2 /\ t.pc # "unused"

(* ------------------------------ no retry ------------------------------- *)

\* the requests the tasks ts wait for
InFlight(ts) == UNION {{<<t, q>> : q \in Requests(t)} : t \in ts}

\* the messages a failed request leaves in error
FailureMessages ==
    {ErrLoadStates, ErrLoadCounties, ErrStateData, ErrCountyData, ErrGeoLevel,
     ErrFetchGeoJSON, ErrFetchVacancy, ErrInvalidGeoJSON}

C27_LoadingWhileInFlight == InFlight(tasks) # {} => loading

(* -------------------------- order of resolution ------------------------ *)

\* C28: after a single user action whose requests all succeed, the view
\* model left when the last request resolves does not depend on the order of
\* resolution: the step that resolves the last of them, with the handler's
\* or the effect's result of the same action already committed, leaves the
\* dialect of geoJsonData and the rows of vacancyData as they are.
C28_OrderIndependent ==
    [][ ( /\ nAct = 1 /\ nAct' = 1
          /\ tasks' = {} /\ error' = NoError
          /\ geoJsonData.cyc = 1 /\ geoJsonData.features = "some"
          /\ geoJsonData'.features = "some"
          /\ vacancyData # NoVac /\ vacancyData' # NoVac )
        => /\ geoJsonData'.dialect = geoJsonData.dialect
           /\ VacRows(vacancyData') = VacRows(vacancyData) ]_vars

(* ----------------------------- no selection ---------------------------- *)

\* C29: in every reachable state where selectedState is '' the view model
\* is empty: geoJsonData is null, vacancyData is empty and stateStats and
\* countyStats are null.
C29_NoStateNoViewModel ==
    selectedState = ""
       => /\ geoJsonData = NoGeo
          /\ vacancyData = NoVac
          /\ stateStats = NoStats
          /\ countyStats = NoStats

\* C30: in every reachable state, a non-empty selectedCounty implies a
\* non-empty selectedState.
C30_CountyImpliesState == selectedCounty # "" => selectedState # ""

(* ------------------- from a selected state and county ------------------ *)

\* the component at rest after a state and then one of its counties have
\* been selected and every request of both selections has succeeded, the
\* handler of the county selection having resolved last
SelectedInit ==
    \E st \in StateIds : \E co \in CountyIds :
        /\ selectedState = st
        /\ selectedCounty = co
        /\ geoLevel = "county"
        /\ states = StateIds
        /\ counties = st
        /\ geoJsonData = MkGeo(2, "handleCountySelect", "county", st, co, "some", "geojson")
        /\ vacancyData = MkVac(2, "handleCountySelect", "county", st, co)
        /\ loading = FALSE
        /\ error = NoError
        /\ stateStats = MkStats(1, st, "")
        /\ countyStats = MkStats(2, st, co)
        /\ tasks = {}
        /\ nAct = 0
        /\ nCycle = 2
        /\ arg = NoCall
        /\ ret = NoCall

\* the steps of the component once the state list has loaded
SelectedNext ==
    \/ \E stateId \in StateIds \cup {""} : HandleStateSelect(stateId)
    \/ \E t \in tasks, r \in ListResponses : LoadCountiesResolve(t, r)
    \/ \E t \in tasks, s \in StatsResponses, g \in GeoResponses :
          HandleStateSelectResolve(t, s, g)
    \/ \E countyId \in CountyIds \cup {""} : HandleCountySelect(countyId)
    \/ \E t \in tasks, s \in StatsResponses, g \in GeoResponses :
          HandleCountySelectResolve(t, s, g)
    \/ \E newLevel \in Levels : HandleGeoLevelChange(newLevel)
    \/ \E t \in tasks, g \in GeoResponses, a \in StatsResponses :
          HandleGeoLevelChangeResolve(t, g, a)
    \/ \E t \in tasks, g \in GeoResponses, a \in StatsResponses :
          UpdateMapResolve(t, g, a)
    \/ \E t \in tasks : UnusedResolve(t)
    \/ DismissError

SelectedSpec == SelectedInit /\ [][SelectedNext]_vars

\* the states SelectedSpec starts in, as Spec reaches them
SelectedReached ==
    /\ selectedState \in StateIds /\ selectedCounty \in CountyIds
    /\ geoLevel = "county" /\ states = StateIds /\ counties = selectedState
    /\ geoJsonData = MkGeo(2, "handleCountySelect", "county", selectedState,
                           selectedCounty, "some", "geojson")
    /\ vacancyData = MkVac(2, "handleCountySelect", "county", selectedState, selectedCounty)
    /\ ~loading /\ error = NoError
    /\ stateStats = MkStats(1, selectedState, "")
    /\ countyStats = MkStats(2, selectedState, selectedCounty)
    /\ tasks = {} /\ nCycle = 2

\* C31: in every reachable state, geoLevel equal to 'tract' implies a
\* non-empty selectedCounty.
C31_TractImpliesCounty == geoLevel = "tract" => selectedCounty # ""

(* --------------------------- paired commits ---------------------------- *)

\* the fetcher that writes the rows next to the geometry written by src
RowsSource(src) == IF src = "fetchGeoJSON" THEN "fetchVacancyData" ELSE src

\* C32: geoJsonData and vacancyData are written by the same cycle or are
\* both empty: every step that changes one of them leaves either both empty,
\* or geometry and rows of the same run for the same level, state and
\* county, the rows possibly an empty list that the same step wrote.
C32_GeometryAndRowsOfOneCycle ==
    [][ (geoJsonData' # geoJsonData \/ vacancyData' # vacancyData) =>
          \/ geoJsonData' = NoGeo /\ vacancyData' = NoVac
          \/ /\ geoJsonData' # NoGeo
             /\ \E t \in tasks \ tasks' :
                   /\ geoJsonData'.cyc = t.cyc
                   /\ <<geoJsonData'.level, geoJsonData'.st, geoJsonData'.co>>
                        = <<t.level, t.st, t.co>>
             /\ vacancyData' \in
                  {NoVac, MkVac(geoJsonData'.cyc, RowsSource(geoJsonData'.src),
                                geoJsonData'.level, geoJsonData'.st, geoJsonData'.co)}
      ]_vars

\* the view model of the first selection is shown, written by the effect
\* after the handler, while the requests of a second selection are in flight
C32_Witness ==
    /\ nCycle = 2
    /\ geoJsonData.cyc = 1 /\ geoJsonData.src = "fetchGeoJSON"
    /\ vacancyData.cyc = 1 /\ vacancyData.src = "fetchVacancyData"
    /\ stateStats.cyc = 1
    /\ \E t \in tasks : t.cyc = 2

(* ------------------------------ quiescence ----------------------------- *)

\* a response arrives and the task that waits for it goes on
Resolve ==
    \/ \E t \in tasks, r \in ListResponses : LoadStatesResolve(t, r)
    \/ \E t \in tasks, r \in ListResponses : LoadCountiesResolve(t, r)
    \/ \E t \in tasks, s \in StatsResponses, g \in GeoResponses :
          HandleStateSelectResolve(t, s, g)
    \/ \E t \in tasks, s \in StatsResponses, g \in GeoResponses :
          HandleCountySelectResolve(t, s, g)
    \/ \E t \in tasks, g \in GeoResponses, a \in StatsResponses :
          HandleGeoLevelChangeResolve(t, g, a)
    \/ \E t \in tasks, g \in GeoResponses, a \in StatsResponses :
          UpdateMapResolve(t, g, a)
    \/ \E t \in tasks : UnusedResolve(t)

\* the component when every issued request is answered, with success or
\* with failure; the user is not obliged to act
FairSpec == Spec /\ WF_vars(Resolve)

\* C33: after finitely many user actions, when every issued request
\* resolves, the system reaches a state with no request in flight and
\* loading false and stays there; and in every state with no request in
\* flight loading is false, so it is false from the moment the last request
\* resolves until the next user action.
C33_Quiescence ==
    /\ <>[](tasks = {} /\ ~loading)
    /\ [](tasks = {} => ~loading)

\* two selections have been made and all their requests have resolved
C33_Witness == tasks = {} /\ ~loading /\ nAct >= 2 /\ nCycle >= 2

(* ------------------ county list failure in a selection ----------------- *)

\* C34: when the county-list load inside a state selection fails, error is
\* set to the county-list message, counties is empty, the selection is kept
\* and the handler goes on to its statistics and boundary requests; and when
\* these then succeed with that message still shown, the handler of the
\* latest selection commits stateStats, geoJsonData and vacancyData of its
\* state and leaves selectedState (the state it selected, when it is the
\* only selection made), the message and the empty county list as they are.
C34_CountyListFailureKeepsSelection ==
    [][ \A t \in tasks :
          /\ LoadCountiesResolve(t, "fail")
                => /\ error' = ErrLoadCounties
                   /\ counties' = ""
                   /\ selectedState' = selectedState
                   /\ [t EXCEPT !.pc = "fetch"] \in tasks'
          /\ \A g \in {"ok", "empty"} :
                (/\ error = ErrLoadCounties /\ counties = ""
                 /\ t.cyc = nCycle
                 /\ HandleStateSelectResolve(t, "ok", g))
                => /\ selectedState' = selectedState
                   /\ nAct = 1 => selectedState' = t.st
                   /\ error' = ErrLoadCounties
                   /\ counties' = ""
                   /\ stateStats' = MkStats(t.cyc, t.st, "")
                   /\ geoJsonData'.src = "handleStateSelect"
                   /\ geoJsonData'.cyc = t.cyc /\ geoJsonData'.st = t.st
                   /\ vacancyData' = MkVac(t.cyc, "handleStateSelect", "state", t.st, "")
      ]_vars

\* the selection is at rest with its results committed by the handler, the
\* county-list message shown and no counties to choose from
C34_Witness ==
    /\ tasks = {}
    /\ error = ErrLoadCounties /\ counties = ""
    /\ selectedState \in StateIds
    /\ stateStats = MkStats(1, selectedState, "")
    /\ geoJsonData.src = "handleStateSelect" /\ geoJsonData.st = selectedState
    /\ vacancyData = MkVac(1, "handleStateSelect", "state", selectedState, "")

====
